---- MODULE Spec2Model ----
(***************************************************************************)
(* NETCONF <lock> and <unlock> of Netopeer2 (src/server/op_un_lock.c).     *)
(*                                                                         *)
(* Worker threads run op_lock and op_unlock concurrently.  Each thread     *)
(* steps through the statements of the function it is in; the shared      *)
(* state is the lock table dslock, the read/write lock dslock_rwl that     *)
(* guards it, and the per-session sysrepo context (sessions->ds and the    *)
(* datastore the sysrepo session sessions->srs is switched to).  The       *)
(* results of the sysrepo calls are inputs of the program and are chosen   *)
(* nondeterministically.                                                   *)
(*                                                                         *)
(* Spec is the program under any scheduling, any assignment of sessions to *)
(* threads and any sysrepo.  SpecSerial adds what the server around these  *)
(* functions and sysrepo itself provide: one call per session at a time    *)
(* and a lock holder kept per datastore.  SpecFair adds fair scheduling.   *)
(***************************************************************************)
EXTENDS Integers, Sequences, FiniteSets, TLC

\* Bounds of the model.
NumThreads == 2     \* worker threads
NumSessions == 2    \* NETCONF sessions
MaxCalls == 3       \* RPCs handled in one behaviour
MaxSrErrs == 1      \* errors sysrepo queues for a failed call

Threads == 1..NumThreads

\* A session is identified with its id (nc_session_get_id); NULL is no session.
NULL == 0
Sessions == 1..NumSessions

\* The datastores op_lock and op_unlock recognize, and the target names an
\* RPC may carry ("url" stands for every other child of <target>).
Stores == {"running", "startup", "candidate"}
Names == Stores \cup {"url"}

\* Values time(NULL) returns; 0 is the cleared timestamp.
Times == {1}

\* Value of stable[t] once another call has rewritten the owner of t's slot.
Changed == NULL - 1

VARIABLES
    dslock,        \* dslock[S] = [ncs |-> dslock.<S>, time |-> dslock.<S>_time]
    dslock_rwl,    \* [readers |-> threads holding it for reading, writer |-> thread or 0]
    sessions,      \* sessions[s] = [ds |-> sessions->ds, srs |-> store srs is switched to]
    srlock,        \* per store: the session whose sysrepo session holds sysrepo's lock of it
    pc,            \* statement each thread is at ("idle": in no call)
    ncs,           \* session of the thread's call
    dsname,        \* target name of the thread's call
    log,           \* guard and sysrepo calls the thread has made in its call
    stable,        \* owner of the target slot since the call began, Changed once another call rewrote it
    seen,          \* owner the call found in its slot at the check that sent it to lock_held / line 181
    wrote,         \* stores whose slot the thread's call has written
    last,          \* the call that returned in the step leading to this state, if one did
    granted,       \* per store: <lock> calls answered ok since the last <unlock> answered ok
    released,      \* stores that an <unlock> answered ok has released
    race,          \* the calls so far, while they are all <lock> of one store by distinct sessions
    ncalls         \* number of calls begun

vars == <<dslock, dslock_rwl, sessions, srlock, pc, ncs, dsname, log, stable, seen,
          wrote, last, granted, released, race, ncalls>>

----------------------------------------------------------------------------
\* Replies (struct nc_server_reply): ok, or an error reply whose last error
\* has tag `tag' and session-id `sid', preceded by `nerr' sysrepo errors.

ReplyOk == [tag |-> "ok", sid |-> 0, msg |-> "", nerr |-> 0]
ReplyOpFailed(m) == [tag |-> "operation-failed", sid |-> 0, msg |-> m, nerr |-> 0]
ReplyLockDenied(id, m, k) == [tag |-> "lock-denied", sid |-> id, msg |-> m, nerr |-> k]

\* nc_session_get_id(): the id of a session, 0 for NULL.
nc_session_get_id(s) == s

\* ereply as initialized (lines 40 and 134): no reply yet.
NoReply == [tag |-> "none", sid |-> 0, msg |-> "", nerr |-> 0]

\* A reply made of k errors translated from sysrepo's error queue.
ReplyEngineFailure(k) == [tag |-> "operation-failed", sid |-> 0, msg |-> "sr", nerr |-> k - 1]

\* op_build_err_sr(ereply, srs) with k errors in the queue of the sysrepo
\* session: they are translated into the reply; with none, ereply is returned
\* as it was.
op_build_err_sr(ereply, k) == IF k = 0 THEN ereply ELSE ReplyEngineFailure(k)

\* nc_server_reply_add_err(): error e becomes the last error of reply r.
nc_server_reply_add_err(r, e) == [e EXCEPT !.nerr = r.nerr + 1]

----------------------------------------------------------------------------
\* pthread_rwlock_* on dslock_rwl.

CanRdLock(t) == dslock_rwl.writer = 0
CanWrLock(t) == dslock_rwl.writer = 0 /\ dslock_rwl.readers = {}
RdLocked(t) == [dslock_rwl EXCEPT !.readers = @ \cup {t}]
WrLocked(t) == [dslock_rwl EXCEPT !.writer = t]
Unlocked(t) == [readers |-> dslock_rwl.readers \ {t},
                writer |-> IF dslock_rwl.writer = t THEN 0 ELSE dslock_rwl.writer]

----------------------------------------------------------------------------
\* Bookkeeping that the properties below are stated with.

NoCall == [op |-> "none", ncs |-> NULL, dsname |-> "url", reply |-> ReplyOk,
           log |-> <<>>, stable |-> NULL, seen |-> NULL, wrote |-> {}]
NoRace == [store |-> "no", called |-> {}, done |-> 0, winner |-> NULL]

\* A step of thread t that ends its call of function o with reply r, after
\* the guard and sysrepo calls evs.
Return(t, o, r, evs) ==
    /\ last' = [op |-> o, ncs |-> ncs[t], dsname |-> dsname[t], reply |-> r,
                log |-> log[t] \o evs, stable |-> stable[t], seen |-> seen[t],
                wrote |-> wrote[t]]
    /\ pc' = [pc EXCEPT ![t] = "idle"]
    /\ ncs' = [ncs EXCEPT ![t] = NULL]
    /\ dsname' = [dsname EXCEPT ![t] = "url"]
    /\ log' = [log EXCEPT ![t] = <<>>]
    /\ stable' = [stable EXCEPT ![t] = NULL]
    /\ seen' = [seen EXCEPT ![t] = NULL]
    /\ wrote' = [wrote EXCEPT ![t] = {}]
    /\ UNCHANGED ncalls
    /\ race' = IF race.store = "no" \/ r.msg = "sr" THEN NoRace
               ELSE [race EXCEPT !.done = @ + 1,
                                 !.winner = IF r.tag = "ok" THEN ncs[t] ELSE @]

\* A step of thread t that goes on to statement l after the calls evs; a
\* step to "l_held" or "u_held" is a check that found an owner in the slot.
Goto(t, l, evs) ==
    /\ last' = NoCall
    /\ pc' = [pc EXCEPT ![t] = l]
    /\ log' = [log EXCEPT ![t] = @ \o evs]
    /\ seen' = [seen EXCEPT ![t] = IF l \in {"l_held", "u_held"}
                                   THEN dslock[dsname[t]].ncs ELSE @]
    /\ UNCHANGED <<ncs, dsname, race, ncalls>>

\* A step of thread t that writes the lock table: the stores t has written,
\* and the calls of other threads whose slot changed owner.
Track(t) ==
    /\ wrote' = [wrote EXCEPT ![t] = @ \cup {S \in Stores : dslock'[S] # dslock[S]}]
    /\ stable' = [u \in Threads |->
                    IF /\ u # t
                       /\ pc[u] # "idle"
                       /\ dslock'[dsname[u]].ncs # dslock[dsname[u]].ncs
                    THEN Changed ELSE stable[u]]

----------------------------------------------------------------------------
Init ==
    /\ dslock = [S \in Stores |-> [ncs |-> NULL, time |-> 0]]
    /\ dslock_rwl = [readers |-> {}, writer |-> 0]
    /\ srlock = [S \in Stores |-> NULL]
    /\ \E d \in [Sessions -> Stores] :
           sessions = [s \in Sessions |-> [ds |-> d[s], srs |-> d[s]]]
    /\ pc = [t \in Threads |-> "idle"]
    /\ ncs = [t \in Threads |-> NULL]
    /\ dsname = [t \in Threads |-> "url"]
    /\ log = [t \in Threads |-> <<>>]
    /\ stable = [t \in Threads |-> NULL]
    /\ seen = [t \in Threads |-> NULL]
    /\ wrote = [t \in Threads |-> {}]
    /\ last = NoCall
    /\ ncalls = 0
    /\ granted = [S \in Stores |-> 0]
    /\ released = {}
    /\ race = [store |-> "any", called |-> {}, done |-> 0, winner |-> NULL]

----------------------------------------------------------------------------
\* op_lock / op_unlock, lines 52-64 and 145-156: the datastore, the owner slot
\* and the timestamp slot that the target name selects.

Ds(n) == CASE n = "running" -> "running"
           [] n = "startup" -> "startup"
           [] n = "candidate" -> "candidate"

\* Dsl with the owner slot of "running" taken in the "candidate" branch.
Dsl_running(n) == CASE n = "running" -> "running"
                    [] n = "startup" -> "startup"
                    [] n = "candidate" -> "running"

Dsl(n) == CASE n = "running" -> "running"
            [] n = "startup" -> "startup"
            [] n = "candidate" -> "candidate"

\* Dst with the timestamp slot of "running" taken in the "candidate" branch.
Dst_running(n) == CASE n = "running" -> "running"
                    [] n = "startup" -> "startup"
                    [] n = "candidate" -> "running"

Dst(n) == CASE n = "running" -> "running"
            [] n = "startup" -> "startup"
            [] n = "candidate" -> "candidate"

\* Lines 52-65 and 145-157: the target names with a branch of their own.
Recognized(n) == n = "running" \/ n = "startup" \/ n = "candidate"

\* Lines 71-75 and 163-167: switch the sysrepo session of s to ds unless
\* sessions->ds says it is there already.  sr_session_switch_ds() succeeds
\* (ok) or fails; its result is ignored and sessions->ds is set either way.
SwitchDs(s, ds, ok) ==
    IF ds # sessions[s].ds
    THEN [sessions EXCEPT ![s] = [ds |-> ds, srs |-> IF ok THEN ds ELSE @.srs]]
    ELSE sessions

\* Prologue with the datastore switched (to ds as initialized, 0, which is
\* SR_DS_STARTUP) before the target is examined.
Prologue_switch_first(t, o, first) ==
    /\ pc[t] = "idle"
    /\ ncalls < MaxCalls
    /\ ncalls' = ncalls + 1
    /\ \E s \in Sessions, n \in Names :
         /\ \E ok \in BOOLEAN :
               sessions' = SwitchDs(s, IF Recognized(n) THEN Ds(n) ELSE "startup", ok)
         /\ IF ~Recognized(n)
            THEN /\ last' = [NoCall EXCEPT !.op = o, !.ncs = s, !.dsname = n,
                                           !.reply = ReplyOpFailed("EINT")]
                 /\ race' = NoRace
                 /\ UNCHANGED <<pc, ncs, dsname, log, stable, wrote>>
            ELSE /\ last' = NoCall
                 /\ pc' = [pc EXCEPT ![t] = first]
                 /\ ncs' = [ncs EXCEPT ![t] = s]
                 /\ dsname' = [dsname EXCEPT ![t] = n]
                 /\ stable' = [stable EXCEPT ![t] = dslock[n].ncs]
                 /\ race' = NoRace
                 /\ UNCHANGED <<log, wrote>>
    /\ UNCHANGED <<dslock, dslock_rwl, srlock, seen, granted, released>>

\* Lines 45-75 of op_lock and 138-167 of op_unlock: thread t takes an RPC o of
\* session s on target n, rejects an unknown target (lines 65-70, 157-162),
\* and switches the session's datastore.
Prologue(t, o, first) ==
    /\ pc[t] = "idle"
    /\ ncalls < MaxCalls
    /\ ncalls' = ncalls + 1
    /\ \E s \in Sessions, n \in Names :
         IF ~Recognized(n)
         THEN /\ last' = [NoCall EXCEPT !.op = o, !.ncs = s, !.dsname = n,
                                        !.reply = ReplyOpFailed("EINT")]
              /\ race' = NoRace
              /\ UNCHANGED <<sessions, pc, ncs, dsname, log, stable, wrote>>
         ELSE /\ \E ok \in BOOLEAN : sessions' = SwitchDs(s, Ds(n), ok)
              /\ last' = NoCall
              /\ pc' = [pc EXCEPT ![t] = first]
              /\ ncs' = [ncs EXCEPT ![t] = s]
              /\ dsname' = [dsname EXCEPT ![t] = n]
              /\ stable' = [stable EXCEPT ![t] = dslock[n].ncs]
              /\ race' = IF /\ o = "lock"
                            /\ race.store \in {"any", n}
                            /\ s \notin race.called
                         THEN [race EXCEPT !.store = n, !.called = @ \cup {s}]
                         ELSE NoRace
              /\ UNCHANGED <<log, wrote>>
    /\ UNCHANGED <<dslock, dslock_rwl, srlock, seen, granted, released>>

----------------------------------------------------------------------------
\* op_lock

\* LockCheck looking at the slots of all datastores.
LockCheck_any(S) == \E X \in Stores : dslock[X].ncs # NULL

\* Line 78 and line 92: the slot has an owner.
LockCheck(S) == dslock[S].ncs # NULL

\* LockRecheck without the check of line 92.
LockRecheck_skipped(S) == FALSE

LockRecheck(S) == dslock[S].ncs # NULL

\* Line 116 and line 117.
LockSetDsl(S, s) == [dslock EXCEPT ![S].ncs = s]
LockSetDst(S, now) == [dslock EXCEPT ![S].time = now]

\* LockErrUnlock without the pthread_rwlock_unlock().
LockErrUnlock_kept(t) == dslock_rwl

\* Line 99: the guard after sr_lock_datastore() failed.
LockErrUnlock(t) == Unlocked(t)

\* LockErrReply with the lock-denied error made only when sysrepo queued no
\* error.
LockErrReply_otherwise(ereply) ==
    IF ereply # NoReply THEN ereply ELSE ReplyLockDenied(0, "sr", 0)

\* Lines 101-112: the reply after sr_lock_datastore() failed: a lock-denied
\* error with session-id 0, added to the errors of sysrepo when there are any.
LockErrReply(ereply) ==
    IF ereply # NoReply
    THEN nc_server_reply_add_err(ereply, ReplyLockDenied(0, "sr", 0))
    ELSE ReplyLockDenied(0, "sr", 0)

\* Line 96: sr_lock_datastore(sessions->srs) returning SR_ERR_OK has locked,
\* for session s, the datastore its sysrepo session is switched to.
SrLocked(s) == [srlock EXCEPT ![sessions[s].srs] = s]

\* LockHolder reporting the requesting session.
LockHolder_self(S, s) == nc_session_get_id(s)

\* Line 84: the holder reported to session s, read from slot S.
LockHolder(S, s) == nc_session_get_id(dslock[S].ncs)

op_lock_enter(t) == Prologue(t, "lock", "l_rdlock")

\* Line 77.
op_lock_rdlock(t) ==
    /\ pc[t] = "l_rdlock"
    /\ CanRdLock(t)
    /\ dslock_rwl' = RdLocked(t)
    /\ Goto(t, "l_check", <<"rdlock">>)
    /\ UNCHANGED <<dslock, sessions, srlock, stable, wrote, granted, released>>

\* Lines 78-81 and 88: the first check, then the read lock is given up.
op_lock_check(t) ==
    /\ pc[t] = "l_check"
    /\ dslock_rwl' = Unlocked(t)
    /\ IF LockCheck(Dsl(dsname[t]))
       THEN Goto(t, "l_held", <<"unlock">>)
       ELSE Goto(t, "l_wrlock", <<"unlock">>)
    /\ UNCHANGED <<dslock, sessions, srlock, stable, wrote, granted, released>>

\* Line 90.
op_lock_wrlock(t) ==
    /\ pc[t] = "l_wrlock"
    /\ CanWrLock(t)
    /\ dslock_rwl' = WrLocked(t)
    /\ Goto(t, "l_recheck", <<"wrlock">>)
    /\ UNCHANGED <<dslock, sessions, srlock, stable, wrote, granted, released>>

\* Lines 92-94 (and 81 after the goto): the check under the write lock.
op_lock_recheck(t) ==
    /\ pc[t] = "l_recheck"
    /\ IF LockRecheck(Dsl(dsname[t]))
       THEN /\ dslock_rwl' = Unlocked(t)
            /\ Goto(t, "l_held", <<"unlock">>)
       ELSE /\ Goto(t, "l_sr_lock", <<>>)
            /\ UNCHANGED dslock_rwl
    /\ UNCHANGED <<dslock, sessions, srlock, stable, wrote, granted, released>>

\* Lines 82-86: the owner is read from the slot after the guard was given up.
op_lock_held(t) ==
    /\ pc[t] = "l_held"
    /\ Return(t, "lock",
              ReplyLockDenied(LockHolder(Dsl(dsname[t]), ncs[t]), "held", 0),
              <<>>)
    /\ UNCHANGED <<dslock, dslock_rwl, sessions, srlock, granted, released>>

\* Lines 96-113: sr_lock_datastore() succeeds, or fails with k queued errors.
op_lock_sr(t) ==
    /\ pc[t] = "l_sr_lock"
    /\ \/ /\ srlock' = SrLocked(ncs[t])
          /\ Goto(t, "l_set_dsl", <<"sr_lock_ok">>)
          /\ UNCHANGED <<dslock_rwl, stable, wrote>>
       \/ /\ dslock_rwl' = LockErrUnlock(t)
          /\ \E k \in 0..MaxSrErrs :
                Return(t, "lock", LockErrReply(op_build_err_sr(NoReply, k)),
                       <<"sr_lock_err", "unlock">>)
          /\ UNCHANGED srlock
    /\ UNCHANGED <<dslock, sessions, granted, released>>

\* Line 116.
op_lock_set_dsl(t) ==
    /\ pc[t] = "l_set_dsl"
    /\ dslock' = LockSetDsl(Dsl(dsname[t]), ncs[t])
    /\ Track(t)
    /\ Goto(t, "l_set_dst", <<>>)
    /\ UNCHANGED <<dslock_rwl, sessions, srlock, granted, released>>

\* Line 117.
op_lock_set_dst(t) ==
    /\ pc[t] = "l_set_dst"
    /\ \E now \in Times : dslock' = LockSetDst(Dst(dsname[t]), now)
    /\ Track(t)
    /\ Goto(t, "l_unlock", <<>>)
    /\ UNCHANGED <<dslock_rwl, sessions, srlock, granted, released>>

\* Lines 118-121.
op_lock_ok(t) ==
    /\ pc[t] = "l_unlock"
    /\ dslock_rwl' = Unlocked(t)
    /\ Return(t, "lock", ReplyOk, <<"unlock">>)
    /\ granted' = [granted EXCEPT ![dsname[t]] = @ + 1]
    /\ UNCHANGED released
    /\ UNCHANGED <<dslock, sessions, srlock>>

----------------------------------------------------------------------------
\* op_unlock

\* Line 170 and line 180.

\* UnlockNotHeld without the check of line 170.
UnlockNotHeld_skipped(S) == FALSE

UnlockNotHeld(S) == dslock[S].ncs = NULL

\* UnlockHeldByOther without the check of line 180.
UnlockHeldByOther_skipped(S, s) == FALSE

UnlockHeldByOther(S, s) == dslock[S].ncs # s

\* Line 216 and line 217.

\* UnlockClearDsl and UnlockClearDst without the assignment.
UnlockClearDsl_kept(S) == dslock
UnlockClearDst_kept(S) == dslock

UnlockClearDsl(S) == [dslock EXCEPT ![S].ncs = NULL]
UnlockClearDst(S) == [dslock EXCEPT ![S].time = 0]

\* Lines 198-209: the reply after sr_unlock_datastore() failed.
UnlockErrReply(ereply) ==
    IF ereply # NoReply
    THEN nc_server_reply_add_err(ereply, ReplyLockDenied(0, "sr", 0))
    ELSE ReplyLockDenied(0, "sr", 0)

\* Line 193: sr_unlock_datastore(sessions->srs) returning SR_ERR_OK has
\* unlocked the datastore the sysrepo session of s is switched to.
SrUnlocked(s) == [srlock EXCEPT ![sessions[s].srs] = NULL]

\* UnlockErrUnlock without the pthread_rwlock_unlock().
UnlockErrUnlock_kept(t) == dslock_rwl

\* Line 196: the guard after sr_unlock_datastore() failed.
UnlockErrUnlock(t) == Unlocked(t)

\* Line 185: the holder reported to session s, read from slot S.
UnlockHolder(S, s) == nc_session_get_id(dslock[S].ncs)

op_unlock_enter(t) == Prologue(t, "unlock", "u_rdlock")

\* Line 169.
op_unlock_rdlock(t) ==
    /\ pc[t] = "u_rdlock"
    /\ CanRdLock(t)
    /\ dslock_rwl' = RdLocked(t)
    /\ Goto(t, "u_check", <<"rdlock">>)
    /\ UNCHANGED <<dslock, sessions, srlock, stable, wrote, granted, released>>

\* Lines 170-190: the owner check, then the read lock is given up.
op_unlock_check(t) ==
    /\ pc[t] = "u_check"
    /\ dslock_rwl' = Unlocked(t)
    /\ IF UnlockNotHeld(Dsl(dsname[t]))
       THEN Return(t, "unlock", ReplyOpFailed("not active"), <<"unlock">>)
       ELSE /\ IF UnlockHeldByOther(Dsl(dsname[t]), ncs[t])
               THEN Goto(t, "u_held", <<"unlock">>)
               ELSE Goto(t, "u_wrlock", <<"unlock">>)
            /\ UNCHANGED <<stable, wrote>>
    /\ UNCHANGED <<dslock, sessions, srlock, granted, released>>

\* Lines 183-187: the owner is read from the slot after the guard was given up.
op_unlock_held(t) ==
    /\ pc[t] = "u_held"
    /\ Return(t, "unlock",
              ReplyLockDenied(UnlockHolder(Dsl(dsname[t]), ncs[t]), "held", 0),
              <<>>)
    /\ UNCHANGED <<dslock, dslock_rwl, sessions, srlock, granted, released>>

\* Line 191.
op_unlock_wrlock(t) ==
    /\ pc[t] = "u_wrlock"
    /\ CanWrLock(t)
    /\ dslock_rwl' = WrLocked(t)
    /\ Goto(t, "u_sr_unlock", <<"wrlock">>)
    /\ UNCHANGED <<dslock, sessions, srlock, stable, wrote, granted, released>>

\* Lines 193-210: sr_unlock_datastore() succeeds, or fails with k queued errors.
op_unlock_sr(t) ==
    /\ pc[t] = "u_sr_unlock"
    /\ \/ /\ srlock' = SrUnlocked(ncs[t])
          /\ Goto(t, "u_discard", <<"sr_unlock_ok">>)
          /\ UNCHANGED <<dslock_rwl, stable, wrote>>
       \/ /\ dslock_rwl' = UnlockErrUnlock(t)
          /\ \E k \in 0..MaxSrErrs :
                Return(t, "unlock", UnlockErrReply(op_build_err_sr(NoReply, k)),
                       <<"sr_unlock_err", "unlock">>)
          /\ UNCHANGED srlock
    /\ UNCHANGED <<dslock, sessions, granted, released>>

\* op_unlock_discard without the sr_discard_changes().
op_unlock_discard_skipped(t) ==
    /\ pc[t] = "u_discard"
    /\ Goto(t, "u_clr_dsl", <<>>)
    /\ UNCHANGED <<dslock, dslock_rwl, sessions, srlock, stable, wrote, granted, released>>

\* Line 213.
op_unlock_discard(t) ==
    /\ pc[t] = "u_discard"
    /\ Goto(t, "u_clr_dsl", <<"discard">>)
    /\ UNCHANGED <<dslock, dslock_rwl, sessions, srlock, stable, wrote, granted, released>>

\* Line 216.
op_unlock_clr_dsl(t) ==
    /\ pc[t] = "u_clr_dsl"
    /\ dslock' = UnlockClearDsl(Dsl(dsname[t]))
    /\ Track(t)
    /\ Goto(t, "u_clr_dst", <<>>)
    /\ UNCHANGED <<dslock_rwl, sessions, srlock, granted, released>>

\* Line 217.
op_unlock_clr_dst(t) ==
    /\ pc[t] = "u_clr_dst"
    /\ dslock' = UnlockClearDst(Dst(dsname[t]))
    /\ Track(t)
    /\ Goto(t, "u_unlock", <<>>)
    /\ UNCHANGED <<dslock_rwl, sessions, srlock, granted, released>>

\* Lines 219-222.
op_unlock_ok(t) ==
    /\ pc[t] = "u_unlock"
    /\ dslock_rwl' = Unlocked(t)
    /\ Return(t, "unlock", ReplyOk, <<"unlock">>)
    /\ granted' = [granted EXCEPT ![dsname[t]] = 0]
    /\ released' = released \cup {dsname[t]}
    /\ UNCHANGED <<dslock, sessions, srlock>>

----------------------------------------------------------------------------
Next ==
    \E t \in Threads :
        \/ op_lock_enter(t)
        \/ op_lock_rdlock(t)
        \/ op_lock_check(t)
        \/ op_lock_wrlock(t)
        \/ op_lock_recheck(t)
        \/ op_lock_held(t)
        \/ op_lock_sr(t)
        \/ op_lock_set_dsl(t)
        \/ op_lock_set_dst(t)
        \/ op_lock_ok(t)
        \/ op_unlock_enter(t)
        \/ op_unlock_rdlock(t)
        \/ op_unlock_check(t)
        \/ op_unlock_held(t)
        \/ op_unlock_wrlock(t)
        \/ op_unlock_sr(t)
        \/ op_unlock_discard(t)
        \/ op_unlock_clr_dsl(t)
        \/ op_unlock_clr_dst(t)
        \/ op_unlock_ok(t)

Spec == Init /\ [][Next]_vars

----------------------------------------------------------------------------
\* The same calls in a server that has every session in at most one call at
\* a time, over a sysrepo that keeps, for every datastore, the session that
\* holds its lock: sr_lock_datastore() succeeds only on a datastore no
\* session has locked, sr_unlock_datastore() only on one the session itself
\* has locked (either may also fail, the lock being held outside the server).

OneCallPerSession(t) ==
    LET s == IF pc'[t] = "idle" THEN last'.ncs ELSE ncs'[t]
    IN  \A u \in Threads \ {t} : ncs[u] # s

serial_lock_enter(t) == op_lock_enter(t) /\ OneCallPerSession(t)

serial_unlock_enter(t) == op_unlock_enter(t) /\ OneCallPerSession(t)

serial_lock_sr(t) ==
    /\ op_lock_sr(t)
    /\ pc'[t] = "l_set_dsl" => srlock[sessions[ncs[t]].srs] = NULL

serial_unlock_sr(t) ==
    /\ op_unlock_sr(t)
    /\ pc'[t] = "u_discard" => srlock[sessions[ncs[t]].srs] = ncs[t]

NextSerial ==
    \E t \in Threads :
        \/ serial_lock_enter(t)
        \/ op_lock_rdlock(t)
        \/ op_lock_check(t)
        \/ op_lock_wrlock(t)
        \/ op_lock_recheck(t)
        \/ op_lock_held(t)
        \/ serial_lock_sr(t)
        \/ op_lock_set_dsl(t)
        \/ op_lock_set_dst(t)
        \/ op_lock_ok(t)
        \/ serial_unlock_enter(t)
        \/ op_unlock_rdlock(t)
        \/ op_unlock_check(t)
        \/ op_unlock_held(t)
        \/ op_unlock_wrlock(t)
        \/ serial_unlock_sr(t)
        \/ op_unlock_discard(t)
        \/ op_unlock_clr_dsl(t)
        \/ op_unlock_clr_dst(t)
        \/ op_unlock_ok(t)

SpecSerial == Init /\ [][NextSerial]_vars

----------------------------------------------------------------------------
\* The same calls under fair scheduling: a thread that is in a call and can
\* take its next step takes it (every sysrepo call returns), and a thread
\* that waits for dslock_rwl gets it if it is free again and again.

Step(t) ==
    \/ op_lock_rdlock(t)
    \/ op_lock_check(t)
    \/ op_lock_wrlock(t)
    \/ op_lock_recheck(t)
    \/ op_lock_held(t)
    \/ op_lock_sr(t)
    \/ op_lock_set_dsl(t)
    \/ op_lock_set_dst(t)
    \/ op_lock_ok(t)
    \/ op_unlock_rdlock(t)
    \/ op_unlock_check(t)
    \/ op_unlock_held(t)
    \/ op_unlock_wrlock(t)
    \/ op_unlock_sr(t)
    \/ op_unlock_discard(t)
    \/ op_unlock_clr_dsl(t)
    \/ op_unlock_clr_dst(t)
    \/ op_unlock_ok(t)

Acquire(t) ==
    \/ op_lock_rdlock(t)
    \/ op_lock_wrlock(t)
    \/ op_unlock_rdlock(t)
    \/ op_unlock_wrlock(t)

Fairness == \A t \in Threads : WF_vars(Step(t)) /\ SF_vars(Acquire(t))

\* The fair behaviours are explored for sessions that start on the running
\* datastore and for RPCs on two of the three datastores (and on unknown
\* targets): the guard is one for all datastores, and the steps of a call do
\* not depend on which datastore it is on.
FairTargets == {"running", "candidate", "url"}

InitFair == Init /\ \A s \in Sessions : sessions[s].ds = "running"

OnFairTarget(t) ==
    LET n == IF pc'[t] = "idle" THEN last'.dsname ELSE dsname'[t]
    IN  n \in FairTargets

fair_lock_enter(t) == op_lock_enter(t) /\ OnFairTarget(t)

fair_unlock_enter(t) == op_unlock_enter(t) /\ OnFairTarget(t)

NextFair ==
    \E t \in Threads :
        \/ fair_lock_enter(t)
        \/ op_lock_rdlock(t)
        \/ op_lock_check(t)
        \/ op_lock_wrlock(t)
        \/ op_lock_recheck(t)
        \/ op_lock_held(t)
        \/ op_lock_sr(t)
        \/ op_lock_set_dsl(t)
        \/ op_lock_set_dst(t)
        \/ op_lock_ok(t)
        \/ fair_unlock_enter(t)
        \/ op_unlock_rdlock(t)
        \/ op_unlock_check(t)
        \/ op_unlock_held(t)
        \/ op_unlock_wrlock(t)
        \/ op_unlock_sr(t)
        \/ op_unlock_discard(t)
        \/ op_unlock_clr_dsl(t)
        \/ op_unlock_clr_dst(t)
        \/ op_unlock_ok(t)

SpecFair == InitFair /\ [][NextFair]_vars /\ Fairness

----------------------------------------------------------------------------
\* Properties.  `last' describes the call that has just returned: its
\* function, session, target, reply, the guard and sysrepo calls it made, the
\* stores it wrote, the owner its slot had for the whole call (Changed
\* when another call rewrote the slot meanwhile), and the owner that the
\* check which denied it found in the slot.

Events(l) == {l[i] : i \in 1..Len(l)}

\* C1: on no store are two <lock> calls answered ok without an <unlock> of
\* that store answered ok between them.
C1_MutualExclusion == \A S \in Stores : granted[S] <= 1

\* A <lock> is denied on a store another <lock> was granted.
C1_Witness ==
    /\ last.op = "lock"
    /\ last.dsname \in Stores
    /\ last.reply.tag = "lock-denied"
    /\ last.reply.msg = "held"
    /\ granted[last.dsname] = 1

\* C2: while the only calls are <lock> calls of distinct sessions on one
\* store S that sysrepo never refuses, a call answered ok makes its session
\* the owner, every other call is answered lock-denied with the session-id of
\* the call answered ok, and once two or more such calls have all returned
\* exactly one was answered ok.
C2_RacingAcquirers ==
    race.store \in Stores =>
        /\ granted[race.store] <= 1
        /\ (granted[race.store] = 1) <=> (race.winner # NULL)
        /\ last.op # "none" =>
              /\ last.op = "lock"
              /\ last.dsname = race.store
              /\ \/ last.reply = ReplyOk /\ race.winner = last.ncs
                 \/ /\ race.winner \notin {NULL, last.ncs}
                    /\ last.reply = ReplyLockDenied(race.winner, "held", 0)
        /\ (Cardinality(race.called) >= 2 /\ race.done = Cardinality(race.called)) =>
              granted[race.store] = 1

\* Two sessions raced for a store, both passed the check under the read
\* lock, and the loser has returned after the winner.
C2_Witness ==
    /\ race.store \in Stores
    /\ Cardinality(race.called) = 2
    /\ race.done = 2
    /\ last.reply.tag = "lock-denied"
    /\ last.log = <<"rdlock", "unlock", "wrlock", "unlock">>

\* C3: a <lock> of session B on a store that another session A owns for the
\* whole call is answered lock-denied with A's session-id; an <unlock>
\* answered ok leaves the slot without owner and timestamp; a <lock> on a
\* store that has no owner for the whole call is answered ok, and makes the
\* session the owner, unless sysrepo refuses the lock.
C3_HandOver ==
    /\ (last.op = "lock" /\ last.stable \notin {NULL, Changed, last.ncs}) =>
           last.reply = ReplyLockDenied(last.stable, "held", 0)
    /\ (last.op = "unlock" /\ last.reply = ReplyOk) =>
           dslock[last.dsname] = [ncs |-> NULL, time |-> 0]
    /\ (/\ last.op = "lock"
        /\ last.dsname \in Stores
        /\ last.stable = NULL
        /\ "sr_lock_err" \notin Events(last.log)) =>
           /\ last.reply = ReplyOk
           /\ dslock[last.dsname].ncs = last.ncs

\* A store that was released is granted to a session.
C3_Witness ==
    /\ last.op = "lock"
    /\ last.dsname \in released
    /\ last.stable = NULL
    /\ last.reply = ReplyOk

\* C4: a call that is not answered ok has written no slot, and a call
\* answered ok has written no slot but that of its target (and has written
\* that one, unless another call rewrote it during the call).  After
\* sysrepo refused a lock the slot has no owner; after sysrepo refused an
\* unlock the slot is still owned by the requesting session (no other call
\* having rewritten the slot during the call).
C4_NoPartialMutation ==
    last.op # "none" =>
        /\ last.reply # ReplyOk => last.wrote = {}
        /\ last.reply = ReplyOk =>
               /\ last.wrote \subseteq {last.dsname}
               /\ last.stable # Changed => last.wrote = {last.dsname}
        /\ (last.op = "lock" /\ last.reply.msg = "sr") =>
               dslock[last.dsname] = [ncs |-> NULL, time |-> 0]
        /\ (last.op = "unlock" /\ last.reply.msg = "sr" /\ last.stable # Changed) =>
               /\ dslock[last.dsname].ncs = last.ncs
               /\ dslock[last.dsname].time # 0

\* sysrepo refused the unlock of a store while another store is locked.
C4_Witness ==
    /\ last.op = "unlock"
    /\ last.reply.msg = "sr"
    /\ last.stable = last.ncs
    /\ \E S \in Stores \ {last.dsname} : dslock[S].ncs # NULL

\* C5: an <unlock> of session B on a store that another session A owns for
\* the whole call is answered lock-denied with A's session-id, after no more
\* than the read lock: sysrepo is not called, no slot is written, and A
\* still owns the store.
C5_ReleaseByNonOwner ==
    (last.op = "unlock" /\ last.stable \notin {NULL, Changed, last.ncs}) =>
        /\ last.reply = ReplyLockDenied(last.stable, "held", 0)
        /\ last.log = <<"rdlock", "unlock">>
        /\ last.wrote = {}
        /\ dslock[last.dsname].ncs = last.stable

C5_Witness ==
    /\ last.op = "unlock"
    /\ last.stable \notin {NULL, Changed, last.ncs}
    /\ last.reply.tag = "lock-denied"

\* C6: an <unlock> that finds, under the read lock, its slot without owner
\* returns in that step, answered operation-failed ("lock is not active"),
\* having taken the read lock and given it up and nothing else: no write
\* lock, no sysrepo call, no slot written, and the guard no longer held.
C6_ReleaseUnlocked ==
    [][\A t \in Threads :
        (pc[t] = "u_check" /\ pc'[t] # "u_check" /\ dslock[dsname[t]].ncs = NULL) =>
            /\ t \in dslock_rwl.readers
            /\ pc'[t] = "idle"
            /\ last' = [op |-> "unlock", ncs |-> ncs[t], dsname |-> dsname[t],
                        reply |-> ReplyOpFailed("not active"),
                        log |-> <<"rdlock", "unlock">>,
                        stable |-> stable[t], seen |-> NULL, wrote |-> {}]
            /\ dslock' = dslock
            /\ dslock'[dsname[t]].ncs = NULL
            /\ t \notin dslock_rwl'.readers
            /\ dslock_rwl'.writer # t
      ]_vars

C6_Witness ==
    /\ last.op = "unlock"
    /\ last.reply = ReplyOpFailed("not active")
    /\ \E S \in Stores \ {last.dsname} : dslock[S].ncs # NULL

\* C7: a call whose target is none of running, startup, candidate returns
\* in its first step, answered operation-failed, whatever the lock table
\* holds; it takes no guard, calls neither sr_session_switch_ds() nor any
\* other sysrepo function, and changes no slot.
C7_UnknownTarget ==
    [][(/\ ncalls' # ncalls
        /\ \/ last'.op # "none" /\ last'.dsname \notin Stores
           \/ \E t \in Threads : pc'[t] # pc[t] /\ dsname'[t] \notin Stores) =>
            /\ last'.op \in {"lock", "unlock"}
            /\ last'.reply = ReplyOpFailed("EINT")
            /\ last'.log = <<>>
            /\ last'.wrote = {}
            /\ UNCHANGED <<dslock, dslock_rwl, sessions, pc>>
      ]_vars

\* The call is rejected while a store is locked and the guard is in use.
C7_Witness ==
    /\ last.op \in {"lock", "unlock"}
    /\ last.dsname \notin Stores
    /\ last.reply = ReplyOpFailed("EINT")
    /\ \E S \in Stores : dslock[S].ncs # NULL
    /\ dslock_rwl.writer # 0

\* C8: while no thread holds the write lock, every slot has an owner if and
\* only if it has a timestamp.
C8_SlotWellFormed ==
    dslock_rwl.writer = 0 =>
        \A S \in Stores : (dslock[S].ncs # NULL) <=> (dslock[S].time # 0)

\* The guard is free while one store is locked and another was locked and
\* released.
C8_Witness ==
    /\ dslock_rwl.writer = 0
    /\ \E S \in Stores : dslock[S].ncs # NULL /\ dslock[S].time # 0
    /\ \E S \in released : dslock[S].ncs = NULL /\ dslock[S].time = 0

\* C9: a thread that is in no call holds the guard neither for reading
\* nor for writing: every call has given the guard up when it returns.
C9_GuardReleased ==
    \A t \in Threads :
        pc[t] = "idle" => t \notin dslock_rwl.readers /\ dslock_rwl.writer # t

\* A call that sysrepo refused has returned, and a waiting thread can take
\* the write lock.
C9_Witness ==
    /\ last.reply.msg = "sr"
    /\ \E t \in Threads : pc[t] \in {"l_wrlock", "u_wrlock"} /\ CanWrLock(t)

\* C10: the owner of a slot changes only from none to session s, in the
\* assignment of a <lock> of s on that store, or from a session to none, in
\* the assignment of an <unlock> on that store; a call that has written a
\* slot has nothing left to do but to return ok, and a call that returns
\* having written a slot is answered ok.
C10_OwnerChanges ==
    [][/\ \A S \in Stores :
            dslock'[S].ncs # dslock[S].ncs =>
                \/ /\ dslock[S].ncs = NULL
                   /\ \E t \in Threads :
                         /\ pc[t] = "l_set_dsl" /\ pc'[t] = "l_set_dst"
                         /\ dsname[t] = S
                         /\ dslock'[S].ncs = ncs[t]
                \/ /\ dslock[S].ncs # NULL
                   /\ dslock'[S].ncs = NULL
                   /\ \E t \in Threads :
                         /\ pc[t] = "u_clr_dsl" /\ pc'[t] = "u_clr_dst"
                         /\ dsname[t] = S
       /\ \A t \in Threads :
            wrote'[t] # {} => pc'[t] \in {"l_set_dst", "l_unlock", "u_clr_dst", "u_unlock"}
       /\ (last'.op # "none" /\ last'.wrote # {}) => last'.reply = ReplyOk
      ]_vars

\* A session has released a store and another session has taken it.
C10_Witness ==
    \E S \in released :
        /\ dslock[S].ncs # NULL
        /\ last.op = "lock"
        /\ last.dsname = S
        /\ last.reply = ReplyOk

Count(l, e) == Cardinality({i \in 1..Len(l) : l[i] = e})

\* C11: an <unlock> calls sr_discard_changes() once if sr_unlock_datastore()
\* succeeded in it and never otherwise: the call is made right after
\* sr_unlock_datastore() returned, under the write lock, before the call has
\* cleared the slot or given the guard up.  A <lock>, and an <unlock> that is
\* not answered ok, never calls it.
C11_DiscardOnUnlock ==
    /\ \A t \in Threads :
          /\ pc[t] = "u_discard" =>
                /\ log[t][Len(log[t])] = "sr_unlock_ok"
                /\ Count(log[t], "discard") = 0
          /\ pc[t] = "u_clr_dsl" =>
                /\ SubSeq(log[t], Len(log[t]) - 1, Len(log[t])) = <<"sr_unlock_ok", "discard">>
                /\ wrote[t] = {}
          /\ pc[t] \in {"u_discard", "u_clr_dsl", "u_clr_dst", "u_unlock"} =>
                dslock_rwl.writer = t
          /\ pc[t] \notin {"u_clr_dsl", "u_clr_dst", "u_unlock"} =>
                Count(log[t], "discard") = 0
          /\ Count(log[t], "discard") <= 1
    /\ last.op = "lock" => Count(last.log, "discard") = 0
    /\ last.op = "unlock" =>
          /\ Count(last.log, "discard") = Count(last.log, "sr_unlock_ok")
          /\ Count(last.log, "discard") <= 1
          /\ last.reply = ReplyOk <=> Count(last.log, "discard") = 1
          /\ last.reply = ReplyOk =>
                last.log = <<"rdlock", "unlock", "wrlock", "sr_unlock_ok", "discard", "unlock">>

\* An <unlock> is answered ok, having discarded the changes, while another
\* store is locked.
C11_Witness ==
    /\ last.op = "unlock"
    /\ last.reply = ReplyOk
    /\ Count(last.log, "discard") = 1
    /\ \E S \in Stores \ {last.dsname} : dslock[S].ncs # NULL


\* C12: with every session in at most one call and sysrepo keeping the
\* holder of each datastore's lock, whenever no thread holds the write lock
\* a slot owned by session s is the slot of a datastore whose sysrepo lock s
\* holds; and a <lock> writes the owner only after sr_lock_datastore()
\* returned SR_ERR_OK in that call.
C12_TableFollowsBackend ==
    /\ dslock_rwl.writer = 0 =>
          \A S \in Stores : dslock[S].ncs # NULL => srlock[S] = dslock[S].ncs
    /\ \A t \in Threads :
          pc[t] \in {"l_set_dsl", "l_set_dst", "l_unlock"} =>
              log[t][Len(log[t])] = "sr_lock_ok"


\* C13: a call answered lock-denied because its slot had an owner reports,
\* as session-id, the owner that the check made under the guard found in the
\* slot: never 0, never another session.
C13_HolderFromGuardedState ==
    (last.reply.tag = "lock-denied" /\ last.reply.msg = "held") =>
        /\ last.seen # NULL
        /\ last.reply.sid # 0
        /\ last.reply.sid = nc_session_get_id(last.seen)


\* C14: an <unlock> of session s calls sr_unlock_datastore() and clears the
\* slot only while s is the owner of the slot, in every interleaving, calls
\* of one session running concurrently included.
C14_OwnerAtUnlock ==
    \A t \in Threads :
        pc[t] \in {"u_sr_unlock", "u_discard", "u_clr_dsl"} =>
            dslock[dsname[t]].ncs = ncs[t]


\* C15: whenever a call of session s on store S is about to call
\* sr_lock_datastore() or sr_unlock_datastore(), the sysrepo session of s is
\* switched to S; and sessions->ds always is the datastore the sysrepo
\* session is switched to.
C15_EngineCallTarget ==
    /\ \A t \in Threads :
          pc[t] \in {"l_sr_lock", "u_sr_unlock"} => sessions[ncs[t]].srs = Ds(dsname[t])
    /\ \A s \in Sessions : sessions[s].ds = sessions[s].srs


\* A thread inside sr_lock_datastore() or sr_unlock_datastore().
InEngineCall(t) == pc[t] \in {"l_sr_lock", "u_sr_unlock"}

\* C16: a thread calls sr_lock_datastore() or sr_unlock_datastore() only
\* while it holds the write lock, so at most one such call is outstanding; and
\* while one is outstanding no call reads or writes a slot of the lock table
\* (none returns a holder it has just read from a slot, none is past a write).
C16_EngineCallsSerialized ==
    \A t \in Threads :
        InEngineCall(t) =>
            /\ dslock_rwl.writer = t
            /\ \A u \in Threads \ {t} : ~InEngineCall(u)
            /\ \A u \in Threads \ {t} : pc[u] \notin {"l_check", "l_recheck", "u_check",
                                                      "l_set_dsl", "l_set_dst",
                                                      "u_clr_dsl", "u_clr_dst"}
            /\ last.reply.msg # "held"


\* C17 as claimed: the reply of a <lock> that sr_lock_datastore() refused
\* holds a lock-denied error with session-id 0 only when sysrepo queued no
\* error of its own.
C17_GenericOnlyWithoutMessages ==
    (last.op = "lock" /\ "sr_lock_err" \in Events(last.log)) =>
        ((last.reply.tag = "lock-denied" /\ last.reply.sid = 0) => last.reply.nerr = 0)

\* C17: the reply of a <lock> that sr_lock_datastore() refused always ends
\* with a lock-denied error with session-id 0; the errors that sysrepo
\* queued, when there are any, precede it in the reply.
C17_GenericAlwaysAdded ==
    (last.op = "lock" /\ "sr_lock_err" \in Events(last.log)) =>
        /\ last.reply.tag = "lock-denied"
        /\ last.reply.sid = 0
        /\ last.reply.nerr \in 0..MaxSrErrs
        /\ last.reply.msg = "sr"

\* sysrepo refused a <lock> and queued an error.
C17_Witness ==
    /\ last.op = "lock"
    /\ "sr_lock_err" \in Events(last.log)
    /\ last.reply.nerr >= 1


\* A thread waiting for dslock_rwl, which another thread holds.
Waiting(t) ==
    \/ pc[t] \in {"l_rdlock", "u_rdlock"} /\ ~CanRdLock(t)
    \/ pc[t] \in {"l_wrlock", "u_wrlock"} /\ ~CanWrLock(t)

\* C18: under fair scheduling, with a fair guard and sysrepo calls that
\* return, every call that has begun returns; and in no state do all the
\* threads that are in a call wait for the guard.
C18_EveryCallReturns ==
    /\ \A t \in Threads : [](pc[t] # "idle" => <>(pc[t] = "idle"))
    /\ []((\E t \in Threads : pc[t] # "idle") =>
              \E t \in Threads : pc[t] # "idle" /\ ~Waiting(t))

\* One thread waits for the write lock that another, having left read mode
\* itself, holds.
C18_Witness ==
    \E t, u \in Threads :
        /\ pc[t] \in {"l_wrlock", "u_wrlock"}
        /\ Waiting(t)
        /\ dslock_rwl.writer = u
        /\ Len(log[u]) >= 3


\* C19: a <lock> whose check under the read lock finds an owner in its slot
\* goes to lock_held having taken and given up the read lock only, and
\* returns from there answered lock-denied, with no write lock taken and no
\* sysrepo call made; when the owner found is the requesting session itself,
\* the session-id reported is its own.
C19_FastPathDenial ==
    [][\A t \in Threads :
        /\ (pc[t] = "l_check" /\ pc'[t] # "l_check" /\ dslock[dsname[t]].ncs # NULL) =>
              /\ pc'[t] = "l_held"
              /\ log'[t] = <<"rdlock", "unlock">>
              /\ seen'[t] = dslock[dsname[t]].ncs
        /\ (pc[t] = "l_held" /\ pc'[t] # "l_held" /\ log[t] = <<"rdlock", "unlock">>) =>
              /\ pc'[t] = "idle"
              /\ last'.op = "lock"
              /\ last'.reply.tag = "lock-denied"
              /\ last'.reply.msg = "held"
              /\ last'.log = <<"rdlock", "unlock">>
              /\ seen[t] = ncs[t] => last'.reply.sid = nc_session_get_id(ncs[t])
      ]_vars


\* C20: the way a <lock> on store S takes at its two checks depends on the
\* slot of S alone: it is sent to lock_held if and only if that slot has an
\* owner, whatever the other slots hold.  So a <lock> on a store that has no
\* owner during the call is never answered lock-denied for a known holder,
\* and is answered ok once sr_lock_datastore() has succeeded.
C20_StoresIndependent ==
    /\ [][\A t \in Threads :
            /\ (pc[t] = "l_check" /\ pc'[t] # "l_check") =>
                  (pc'[t] = "l_held" <=> dslock[dsname[t]].ncs # NULL)
            /\ (pc[t] = "l_recheck" /\ pc'[t] # "l_recheck") =>
                  (pc'[t] = "l_held" <=> dslock[dsname[t]].ncs # NULL)
         ]_vars
    /\ []((last.op = "lock" /\ last.dsname \in Stores /\ last.stable = NULL) =>
              /\ last.reply.msg # "held"
              /\ "sr_lock_ok" \in Events(last.log) => last.reply = ReplyOk)

\* A session that owns one store is granted another while a third store is
\* owned by another session.
C20_Witness ==
    /\ last.op = "lock"
    /\ last.reply = ReplyOk
    /\ dslock[last.dsname].ncs = last.ncs
    /\ \E S \in Stores \ {last.dsname} : dslock[S].ncs = last.ncs
    /\ \E S \in Stores \ {last.dsname} : dslock[S].ncs \notin {NULL, last.ncs}

====
